---------------------------- MODULE Spec2Model ----------------------------
(***************************************************************************)
(* django_mri: the MRtrix3 dwi2tensor interface (Tensor2metric) and the    *)
(* sequence classification of a Scan.                                      *)
(*                                                                         *)
(* Python values are tagged records [t, v]; a dict is the sequence of its  *)
(* items [k, v] in insertion order; a str is a TLA+ string, so that the    *)
(* command line is built character for character as the f-strings build    *)
(* it.  A call's outcome is a record: kind "return" with its value, or     *)
(* kind "raise" with the exception's class and argument.                   *)
(***************************************************************************)
EXTENDS Integers, Sequences, FiniteSets, TLC

VARIABLES
    configuration,  \* Tensor2metric.configuration, the held kwargs dict
    call,           \* the last call made on the wrapper and its arguments
    ret,            \* the outcome of that call
    catalog,        \* the rows of the SequenceType table
    dicom,          \* Scan.dicom: NoSeries or the series' header pair
    inferred,       \* the last Scan.infer_sequence_type(): the table and the
                    \* series it read, and its outcome
    scan,           \* the Scan instance's other fields: subject, _nifti,
                    \* is_updated_from_dicom and the header fields
    db,             \* the scan's row as last saved
    niftis,         \* the rows of the NIfTI table
    access,         \* the last read of Scan.nifti and its outcome
    suggested       \* the last Scan.suggest_subject() and what it did

vars ==
    <<configuration, call, ret, catalog, dicom, inferred, scan, db, niftis,
      access, suggested>>

----------------------------------------------------------------------------
(* Bounds of the model.                                                    *)

MaxKeys == 2
MaxCatalog == 2
MaxNiftis == 2

----------------------------------------------------------------------------
(* Python values.                                                          *)

NoneV == [t |-> "none"]
StrV(s) == [t |-> "str", s |-> s]
BoolV(b) == [t |-> "bool", b |-> b]
IntV(n) == [t |-> "int", n |-> n]
ListV(q) == [t |-> "list", items |-> q]
PathV(s) == [t |-> "path", p |-> s]
DictV(d) == [t |-> "dict", d |-> d]

\* the text of a str or of a path
TextOf(val) == IF val.t = "str" THEN val.s ELSE val.p

HasChar(s, c) == \E i \in 1..Len(s) : SubSeq(s, i, i) = c

\* repr() of a str of printable ASCII, tab, newline and carriage return:
\* double quotes only when the text has a single quote and no double quote;
\* the backslash, the quote in use and the control characters are escaped
ReprQuote(s) == IF HasChar(s, "'") /\ ~HasChar(s, "\"") THEN "\"" ELSE "'"

ReprChar(c, quote) ==
    CASE c = "\\" -> "\\\\"
      [] c = "\n" -> "\\n"
      [] c = "\t" -> "\\t"
      [] c = "\r" -> "\\r"
      [] c = quote -> "\\" \o quote
      [] OTHER -> c

RECURSIVE ReprChars(_, _)
ReprChars(s, quote) ==
    IF Len(s) = 0 THEN ""
    ELSE ReprChar(SubSeq(s, 1, 1), quote)
             \o ReprChars(SubSeq(s, 2, Len(s)), quote)

ReprStr(s) == ReprQuote(s) \o ReprChars(s, ReprQuote(s)) \o ReprQuote(s)

RECURSIVE PyRepr(_), ReprItems(_), ReprDictItems(_)

\* repr(value)
PyRepr(val) ==
    CASE val.t = "str" -> ReprStr(val.s)
      [] val.t = "bool" -> (IF val.b THEN "True" ELSE "False")
      [] val.t = "int" -> ToString(val.n)
      [] val.t = "path" -> "PosixPath(" \o ReprStr(val.p) \o ")"
      [] val.t = "list" -> "[" \o ReprItems(val.items) \o "]"
      [] val.t = "dict" -> "{" \o ReprDictItems(val.d) \o "}"
      [] OTHER -> "None"

ReprItems(q) ==
    IF Len(q) = 0 THEN ""
    ELSE IF Len(q) = 1 THEN PyRepr(q[1])
    ELSE PyRepr(q[1]) \o ", " \o ReprItems(Tail(q))

\* the items of a dict with str keys
ReprDictItems(d) ==
    IF Len(d) = 0 THEN ""
    ELSE ReprStr(d[1].k) \o ": " \o PyRepr(d[1].v)
             \o (IF Len(d) = 1 THEN "" ELSE ", " \o ReprDictItems(Tail(d)))

\* str(value), what an f-string {value} inserts
PyStr(val) ==
    CASE val.t = "str" -> val.s
      [] val.t = "path" -> val.p
      [] val.t = "bool" -> (IF val.b THEN "True" ELSE "False")
      [] val.t = "int" -> ToString(val.n)
      [] val.t \in {"list", "dict"} -> PyRepr(val)
      [] OTHER -> "None"

\* bool(value)
PyTruthy(val) ==
    CASE val.t = "bool" -> val.b
      [] val.t = "int" -> val.n # 0
      [] val.t = "str" -> val.s # ""
      [] val.t = "list" -> Len(val.items) > 0
      [] val.t = "dict" -> Len(val.d) > 0
      [] val.t = "path" -> TRUE
      [] OTHER -> FALSE

----------------------------------------------------------------------------
(* Outcomes.                                                               *)

Return(val) == [kind |-> "return", value |-> val, exc |-> "", arg |-> ""]
Raise(e, a) == [kind |-> "raise", value |-> NoneV, exc |-> e, arg |-> a]

----------------------------------------------------------------------------
(* dict operations.                                                        *)

DictKeys(d) == {d[i].k : i \in 1..Len(d)}
HasKey(d, key) == key \in DictKeys(d)
IndexOf(d, key) == CHOOSE i \in 1..Len(d) : d[i].k = key

\* d[key]
DictGet(d, key) ==
    IF HasKey(d, key) THEN Return(d[IndexOf(d, key)].v)
    ELSE Raise("KeyError", key)

\* d[key] = val: a present key keeps its place, a new key goes last
DictSet(d, key, val) ==
    IF HasKey(d, key)
    THEN [i \in 1..Len(d) |-> IF d[i].k = key THEN [k |-> key, v |-> val] ELSE d[i]]
    ELSE Append(d, [k |-> key, v |-> val])

DictRemove(d, key) ==
    LET i == IndexOf(d, key)
    IN  SubSeq(d, 1, i - 1) \o SubSeq(d, i + 1, Len(d))

\* d.pop(key): the value and the dict left, or KeyError
DictPop(d, key) ==
    IF HasKey(d, key)
    THEN [kind |-> "return", value |-> d[IndexOf(d, key)].v, exc |-> "",
          arg |-> "", rest |-> DictRemove(d, key)]
    ELSE [kind |-> "raise", value |-> NoneV, exc |-> "KeyError",
          arg |-> key, rest |-> d]

----------------------------------------------------------------------------
(* pathlib.PurePosixPath on strings.                                       *)

\* the components of s between slashes, "" and "." dropped
RECURSIVE PathParts(_, _, _)
PathParts(s, i, cur) ==
    IF i > Len(s)
    THEN (IF cur = "" \/ cur = "." THEN <<>> ELSE <<cur>>)
    ELSE IF SubSeq(s, i, i) = "/"
         THEN (IF cur = "" \/ cur = "." THEN <<>> ELSE <<cur>>)
                  \o PathParts(s, i + 1, "")
         ELSE PathParts(s, i + 1, cur \o SubSeq(s, i, i))

\* the root: "//" for exactly two leading slashes, "/" for one or three and more
PathRoot(s) ==
    IF Len(s) >= 1 /\ SubSeq(s, 1, 1) = "/"
    THEN (IF Len(s) >= 2 /\ SubSeq(s, 1, 2) = "//"
             /\ ~(Len(s) >= 3 /\ SubSeq(s, 1, 3) = "///")
          THEN "//" ELSE "/")
    ELSE ""

RECURSIVE JoinParts(_)
JoinParts(q) ==
    IF Len(q) = 0 THEN ""
    ELSE IF Len(q) = 1 THEN q[1]
    ELSE q[1] \o "/" \o JoinParts(Tail(q))

PathFormat(root, parts) ==
    IF root = "" /\ Len(parts) = 0 THEN "." ELSE root \o JoinParts(parts)

\* str(Path(s))
PathStr(s) == PathFormat(PathRoot(s), PathParts(s, 1, ""))

\* type(value).__name__
TypeName(val) ==
    CASE val.t = "none" -> "NoneType"
      [] val.t = "path" -> "PosixPath"
      [] OTHER -> val.t

\* Path(value): a str or a path, TypeError otherwise
PathOf(val) ==
    IF val.t \in {"str", "path"} THEN Return(PathV(PathStr(TextOf(val))))
    ELSE Raise("TypeError",
               "expected str, bytes or os.PathLike object, not "
                   \o TypeName(val))

\* str(Path(s).parent)
PathParent(s) ==
    LET parts == PathParts(s, 1, "")
    IN  IF Len(parts) = 0 THEN PathStr(s)
        ELSE PathFormat(PathRoot(s), SubSeq(parts, 1, Len(parts) - 1))

\* destination / name: one operand a Path, the other a Path or a str
PathJoin(destination, name) ==
    IF ~ \/ destination.t = "path" /\ name.t \in {"str", "path"}
         \/ destination.t = "str" /\ name.t = "path"
    THEN Raise("TypeError",
               "unsupported operand type(s) for /: '" \o TypeName(destination)
                   \o "' and '" \o TypeName(name) \o "'")
    ELSE IF PathRoot(TextOf(name)) # ""
    THEN Return(PathV(PathStr(TextOf(name))))
    ELSE Return(PathV(PathFormat(PathRoot(TextOf(destination)),
                   PathParts(TextOf(destination), 1, "")
                       \o PathParts(TextOf(name), 1, ""))))


----------------------------------------------------------------------------
(* Tensor2metric.                                                          *)

FLAGS == <<"ols", "force", "quiet", "info", "nocleanup">>

DEFAULT_OUTPUTS == <<[k |-> "tensor_file", v |-> StrV("tensor.mif")]>>

IsFlag(key) == \E i \in 1..Len(FLAGS) : FLAGS[i] = key

\* key not in config.keys()
OutputMissingAlways(config, key) == TRUE

OutputMissing(config, key) == ~HasKey(config, key)

\* the filename joined to the destination: read from config, under the key
\* that was just found missing
DefaultOutputName(config, key) == DictGet(config, key)

RECURSIVE AddOutputsFrom(_, _, _)
AddOutputsFrom(config, destination, i) ==
    IF i > Len(DEFAULT_OUTPUTS) THEN Return(DictV(config))
    ELSE LET key == DEFAULT_OUTPUTS[i].k
         IN  IF OutputMissing(config, key)
             THEN LET name == DefaultOutputName(config, key)
                  IN  IF name.kind = "raise" THEN name
                      ELSE LET p == PathJoin(destination, name.value)
                           IN  IF p.kind = "raise" THEN p
                               ELSE AddOutputsFrom(
                                        DictSet(config, key, p.value),
                                        destination, i + 1)
             ELSE AddOutputsFrom(config, destination, i + 1)

\* add_outputs(destination) on a held configuration: works on a copy
AddOutputs(held, destination) == AddOutputsFrom(held, destination, 1)

\* for val in value: key_addition += f" {val}"
RECURSIVE ListAdditionJoined(_, _)
ListAdditionJoined(key_addition, q) ==
    IF Len(q) = 0 THEN key_addition
    ELSE ListAdditionJoined(key_addition \o PyStr(q[1]), Tail(q))

RECURSIVE ListAddition(_, _)
ListAddition(key_addition, q) ==
    IF Len(q) = 0 THEN key_addition
    ELSE ListAddition(key_addition \o " " \o PyStr(q[1]), Tail(q))

\* the text one item adds to the command
KeyAdditionDropsFalsy(key, value) ==
    LET key_addition == " -" \o key
    IN  IF value.t = "list" THEN ListAddition(key_addition, value.items)
        ELSE IF ~PyTruthy(value) \/ IsFlag(key) THEN key_addition
        ELSE key_addition \o " " \o PyStr(value)

KeyAddition(key, value) ==
    LET key_addition == " -" \o key
    IN  IF value.t = "list" THEN ListAddition(key_addition, value.items)
        ELSE IF IsFlag(key) /\ PyTruthy(value) THEN key_addition
        ELSE key_addition \o " " \o PyStr(value)

RECURSIVE SetConfigurationByKeys(_)
SetConfigurationByKeys(config) ==
    IF Len(config) = 0 THEN ""
    ELSE KeyAddition(config[1].k, config[1].v)
             \o SetConfigurationByKeys(Tail(config))

\* config.pop("in_file") of generate_command
CommandPopInFileDefault(config) ==
    IF HasKey(config, "in_file") THEN DictPop(config, "in_file")
    ELSE [kind |-> "return", value |-> NoneV, exc |-> "", arg |-> "",
          rest |-> config]

CommandPopInFile(config) == DictPop(config, "in_file")

\* generate_command(destination, config): the outcome, and the caller's dict
\* as the pop leaves it
GenerateCommand(destination, config) ==
    LET p == CommandPopInFile(config)
    IN  IF p.kind = "raise"
        THEN [out |-> Raise(p.exc, p.arg), config |-> p.rest]
        ELSE [out |-> Return(StrV("dwi2tensor " \o PyStr(p.value)
                                    \o SetConfigurationByKeys(p.rest))),
              config |-> p.rest]

\* for key, val in <dict>: each key, a str, is unpacked into two names
UnpackPair(s) ==
    IF Len(s) = 2
    THEN [kind |-> "return", key |-> SubSeq(s, 1, 1), val |-> SubSeq(s, 2, 2),
          exc |-> "", arg |-> ""]
    ELSE [kind |-> "raise", key |-> "", val |-> "", exc |-> "ValueError",
          arg |-> IF Len(s) > 2 THEN "too many values to unpack (expected 2)"
                  ELSE "not enough values to unpack (expected 2, got "
                           \o ToString(Len(s)) \o ")"]

RECURSIVE OutputDictFrom(_, _, _)
OutputDictFrom(destination, output_dict, i) ==
    IF i > Len(DEFAULT_OUTPUTS) THEN Return(DictV(output_dict))
    ELSE LET u == UnpackPair(DEFAULT_OUTPUTS[i].k)
         IN  IF u.kind = "raise" THEN Raise(u.exc, u.arg)
             ELSE LET p == PathJoin(destination, StrV(u.val))
                  IN  IF p.kind = "raise" THEN p
                      ELSE OutputDictFrom(destination,
                               DictSet(output_dict, u.key, p.value), i + 1)

GenerateOutputDict(destination) == OutputDictFrom(destination, <<>>, 1)

\* self.configuration.pop("in_file") of run
RunPopInFile(held) == DictPop(held, "in_file")

\* Path(destination) if destination else Path(in_file).parent
RunDestination(destination, in_file) ==
    IF PyTruthy(destination) THEN PathOf(destination)
    ELSE LET p == PathOf(in_file)
         IN  IF p.kind = "raise" THEN p
             ELSE Return(PathV(PathParent(TextOf(in_file))))

\* os.system(command): the wait status the environment answers with
OsSystem(command, status) == status

RunError(command) == "Failed to run dwi2tensor!\nExecuted command: " \o command

\* One invocation of run: its outcome, the held configuration it leaves, the
\* phases it went through and the commands it handed to os.system.
RunEnd(out, held, phases, executed) ==
    [out |-> out, held |-> held, executed |-> executed,
     phases |-> Append(phases,
                  IF out.kind = "return" THEN "Succeeded" ELSE "Failed")]

Run(held, destination, status) ==
    LET p == RunPopInFile(held)
    IN  IF p.kind = "raise"
        THEN RunEnd(Raise(p.exc, p.arg), p.rest, <<"Configured">>, <<>>)
        ELSE
    LET d == RunDestination(destination, p.value)
    IN  IF d.kind = "raise"
        THEN RunEnd(d, p.rest, <<"Configured">>, <<>>)
        ELSE
    LET a == AddOutputs(p.rest, d.value)
    IN  IF a.kind = "raise"
        THEN RunEnd(a, p.rest, <<"Configured">>, <<>>)
        ELSE
    LET g == GenerateCommand(d.value, a.value.d)
    IN  IF g.out.kind = "raise"
        THEN RunEnd(g.out, p.rest, <<"Configured">>, <<>>)
        ELSE
    LET command == g.out.value.s
        raise_exception == OsSystem(command, status)
        ran == <<"Configured", "CommandBuilt", "Running">>
    IN  IF raise_exception # 0
        THEN RunEnd(Raise("RuntimeError", RunError(command)), p.rest, ran,
                    <<command>>)
        ELSE RunEnd(GenerateOutputDict(d.value), p.rest, ran, <<command>>)

----------------------------------------------------------------------------
(* Sequence classification of a Scan.                                      *)

NoSeries == [t |-> "none"]
SeriesV(ss, sv) ==
    [t |-> "Series", scanning_sequence |-> ss, sequence_variant |-> sv]
SequenceTypeV(row) == [t |-> "SequenceType", row |-> row]

Matching(rows, ss, sv) ==
    {r \in rows : r.scanning_sequence = ss /\ r.sequence_variant = sv}

\* SequenceType.objects.get(scanning_sequence=..., sequence_variant=...)
ObjectsGet(rows, ss, sv) ==
    LET found == Matching(rows, ss, sv)
    IN  IF found = {} THEN Raise("DoesNotExist", "SequenceType")
        ELSE IF Cardinality(found) = 1
        THEN Return(SequenceTypeV(CHOOSE r \in found : TRUE))
        ELSE Raise("MultipleObjectsReturned", "SequenceType")

\* except models.ObjectDoesNotExist
CatchesNothing(exc) == FALSE

CatchesObjectDoesNotExist(exc) == exc = "DoesNotExist"

InferSequenceTypeFromDicom(rows, series) ==
    IF series = NoSeries
    THEN Raise("AttributeError",
               "'NoneType' object has no attribute 'scanning_sequence'")
    ELSE LET got == ObjectsGet(rows, series.scanning_sequence,
                               series.sequence_variant)
         IN  IF got.kind = "raise" /\ CatchesObjectDoesNotExist(got.exc)
             THEN Return(NoneV)
             ELSE got

InferSequenceType(rows, series) ==
    IF series # NoSeries THEN InferSequenceTypeFromDicom(rows, series)
    ELSE Return(NoneV)

\* the table is unique over (scanning_sequence, sequence_variant)
UniqueTogether(rows, row) ==
    Matching(rows, row.scanning_sequence, row.sequence_variant) = {}

----------------------------------------------------------------------------
(* The Scan record: save, the nifti property, suggest_subject.             *)

SubjectV(id) == [t |-> "Subject", id |-> id]
NiftiV(id, path) == [t |-> "NIfTI", id |-> id, path |-> path, is_raw |-> TRUE]

\* bool(instance) of a model instance or None
ModelTruthy(val) == val.t # "none"

\* the series' directory and the scan's id
DicomPath == "/media/MRI/DICOM/7"
ScanIdText == "1"

\* a Scan before its first save
BlankScan(subject) ==
    [subject |-> subject, nifti |-> NoneV, is_updated_from_dicom |-> FALSE,
     header |-> NoSeries]

UpdateFieldsFromDicom(sc, series) ==
    IF ModelTruthy(series)
    THEN [out |-> Return(NoneV),
          scan |-> [sc EXCEPT !.header = series,
                              !.is_updated_from_dicom = TRUE]]
    ELSE [out |-> Raise("AttributeError",
                       "No DICOM data associated with MRI scan "
                           \o ScanIdText \o "!"),
          scan |-> sc]

\* save(): the instance as it is left, and the row written
Save(sc, series) ==
    LET updated ==
            IF ModelTruthy(series) /\ ~sc.is_updated_from_dicom
            THEN UpdateFieldsFromDicom(sc, series).scan
            ELSE sc
    IN  [scan |-> updated,
         db |-> [subject |-> updated.subject, nifti |-> updated.nifti,
                 is_updated_from_dicom |-> updated.is_updated_from_dicom,
                 header |-> updated.header, dicom |-> series]]

\* Scan.objects.create(subject=..., dicom=...)
CreatedScan(subject, series) == Save(BlankScan(subject), series)

\* str.replace(old, new)
RECURSIVE Replace(_, _, _)
Replace(s, old, new) ==
    IF Len(s) < Len(old) THEN s
    ELSE IF SubSeq(s, 1, Len(old)) = old
    THEN new \o Replace(SubSeq(s, Len(old) + 1, Len(s)), old, new)
    ELSE SubSeq(s, 1, 1) \o Replace(SubSeq(s, 2, Len(s)), old, new)

GetDefaultNiftiDestination ==
    PathJoin(PathV(PathStr(Replace(DicomPath, "DICOM", "NIfTI"))),
             StrV(ScanIdText))

\* dcm2niix.convert: the path of the file written at the destination
Dcm2niixConvert(destination) == TextOf(destination) \o ".nii.gz"

\* self.sequence_type and self.sequence_type.title == "Localizer", given what
\* the first and the second evaluation of the property answered; the second
\* is evaluated only when the first is truthy
SequenceTypeIsLocalizer(first, second) ==
    IF first.kind = "raise" THEN first
    ELSE IF ~ModelTruthy(first.value) THEN Return(BoolV(FALSE))
    ELSE IF second.kind = "raise" THEN second
    ELSE IF ~ModelTruthy(second.value)
    THEN Raise("AttributeError",
               "'NoneType' object has no attribute 'title'")
    ELSE Return(BoolV(second.value.row.title = "Localizer"))

\* an exception together with the classes it is an instance of: its own
\* class and every class that one derives from
RaiseOf(e, a, classes) == Raise(e, a) @@ [classes |-> classes \cup {e}]

\* except <class>: the raised exception is an instance of the class
IsInstance(raised, class) == class \in raised.classes

\* the destination of a conversion with destination=None
DefaultDestination(bids) ==
    IF bids.kind = "return" THEN Return(bids.value)
    ELSE IF IsInstance(bids, "ValueError") THEN GetDefaultNiftiDestination
    ELSE Raise(bids.exc, bids.arg)

\* dicom_to_nifti() with its default arguments up to the start of dcm2niix,
\* given the two answers of self.sequence_type and what get_bids_destination
\* answers: it ends there (the outcome), or goes on to convert (the
\* destination)
DicomToNiftiDestination(first, second, series, bids) ==
    LET localizer == SequenceTypeIsLocalizer(first, second)
        destination == DefaultDestination(bids)
        ended == [warned |-> FALSE, go |-> FALSE]
    IN  IF localizer.kind = "raise" THEN [out |-> localizer] @@ ended
        ELSE IF localizer.value.b
        THEN [out |-> Return(NoneV), warned |-> TRUE, go |-> FALSE]
        ELSE IF ~ModelTruthy(series)
        THEN [out |-> Raise("AttributeError", "DICOM_TO_NIFTI_NO_DICOM")]
                 @@ ended
        ELSE IF destination.kind = "raise" THEN [out |-> destination] @@ ended
        ELSE [out |-> destination, warned |-> FALSE, go |-> TRUE]

\* dicom_to_nifti() once dcm2niix has ended: a failure of the conversion
\* propagates and no row is created
DicomToNiftiCreate(destination, table, tool) ==
    IF tool.kind = "raise"
    THEN [out |-> tool, converted |-> FALSE, table |-> table]
    ELSE LET nifti == NiftiV(Cardinality(table) + 1,
                             Dcm2niixConvert(destination))
         IN  [out |-> Return(nifti), converted |-> TRUE,
              table |-> table \cup {nifti}]

\* not isinstance(self._nifti, NIfTI)
NeedsConversionAlways(nifti) == TRUE

NeedsConversion(nifti) == nifti.t # "NIfTI"

\* if self.subject and mismatch
SubjectKeptNever(current, subject) == FALSE

SubjectKept(current, subject) == ModelTruthy(current) /\ current # subject

\* suggest_subject(subject)
SuggestSubject(sc, row, series, subject) ==
    IF subject # NoneV
    THEN IF SubjectKept(sc.subject, subject)
         THEN [scan |-> sc, db |-> row, warned |-> TRUE, saved |-> FALSE]
         ELSE LET w == Save([sc EXCEPT !.subject = subject], series)
              IN  [scan |-> w.scan, db |-> w.db, warned |-> FALSE,
                   saved |-> TRUE]
    ELSE [scan |-> sc, db |-> row, warned |-> FALSE, saved |-> FALSE]

----------------------------------------------------------------------------
(* Inputs.                                                                 *)

KeyPool == {"in_file", "tensor_file", "ols", "quiet", "mask"}

ValuePool ==
    {StrV("/data/dwi.mif"), StrV("t.mif"), BoolV(TRUE), BoolV(FALSE),
     IntV(0), ListV(<<StrV("a"), StrV("b"), StrV("c")>>)}

Items == [k : KeyPool, v : ValuePool]

\* the kwargs dicts of at most MaxKeys items: keys are distinct
Configs ==
    UNION {{q \in [1..n -> Items] :
               \A i, j \in 1..n : q[i].k = q[j].k => i = j} : n \in 0..MaxKeys}

\* destinations given to run: None, or a str
RunDestinations == {NoneV, StrV("/out/")}

\* destinations given to the other methods: a Path
PathDestinations == {PathV("/out"), PathV("out/sub")}

\* wait statuses of os.system: exit codes 0 and 1
ExitStatuses == {0, 256}

Titles == {"DWI", "Localizer"}
ScanningSequences == {<<"EP">>, <<"SE", "IR">>}
SequenceVariants == {<<"NONE">>, <<"SK", "SP">>}

Rows ==
    [title : Titles, scanning_sequence : ScanningSequences,
     sequence_variant : SequenceVariants]

SeriesPool ==
    {SeriesV(ss, sv) : ss \in ScanningSequences, sv \in SequenceVariants}

SubjectPool == {SubjectV("s1"), SubjectV("s2")}

\* the series and the SequenceType rows of the scans that are converted
ConvertedSeries ==
    {SeriesV(<<"EP">>, <<"NONE">>), SeriesV(<<"SE", "IR">>, <<"SK", "SP">>)}

ConvertedRows ==
    {row \in Rows :
        SeriesV(row.scanning_sequence, row.sequence_variant)
            \in ConvertedSeries}

\* the series of the scans that are suggested a subject
SuggestedSeries == {SeriesV(<<"EP">>, <<"NONE">>)}

\* what get_bids_destination answers: a path, or an exception given with
\* the classes it is an instance of
BidsOutcomes ==
    {Return(PathV("/media/MRI/NIfTI/sub-1/ses-1/dwi/sub-1_ses-1_dwi")),
     RaiseOf("ValueError", "no BIDS path", {"Exception"}),
     RaiseOf("UnicodeDecodeError", "bad name",
             {"UnicodeError", "ValueError", "Exception"}),
     RaiseOf("BidsError", "no session", {"ValueError", "Exception"}),
     RaiseOf("KeyError", "modality", {"LookupError", "Exception"})}

\* how dcm2niix ends: the file is written, or the conversion fails
ToolOutcomes == {Return(NoneV), Raise("RuntimeError", "dcm2niix failed")}

----------------------------------------------------------------------------
(* The wrapper's calls.                                                    *)

Call(op, destination, config, status) ==
    [op |-> op, destination |-> destination, config |-> config,
     status |-> status, held |-> configuration]

Outcome(out, phases, executed, config) ==
    [kind |-> out.kind, value |-> out.value, exc |-> out.exc, arg |-> out.arg,
     phases |-> phases, executed |-> executed, config |-> config]

NotInferred ==
    [called |-> FALSE, rows |-> {}, series |-> NoSeries, out |-> Return(NoneV)]

\* pc is where a call of Scan.nifti or Scan.dicom_to_nifti stands: "idle"
\* (none running), "second" (before the second evaluation of
\* self.sequence_type), "body" (before the rest of dicom_to_nifti),
\* "convert" (dcm2niix running) or "save" (dicom_to_nifti returned to the
\* property, before the assignment)
NotAccessed ==
    [called |-> FALSE, pc |-> "idle", via |-> "nifti", before |-> NoneV,
     first |-> Return(NoneV), second |-> Return(NoneV),
     destination |-> NoneV, out |-> Return(NoneV), converted |-> FALSE,
     warned |-> FALSE, saved |-> FALSE]

NotSuggested ==
    [called |-> FALSE, subject |-> NoneV,
     before |-> CreatedScan(NoneV, NoSeries).scan,
     row |-> CreatedScan(NoneV, NoSeries).db,
     after |-> CreatedScan(NoneV, NoSeries).scan,
     saved_row |-> CreatedScan(NoneV, NoSeries).db,
     warned |-> FALSE, saved |-> FALSE]

RecordUnchanged == UNCHANGED <<scan, db, niftis, access, suggested>>

ScanUnchanged ==
    /\ UNCHANGED <<catalog, dicom, inferred>>
    /\ RecordUnchanged

CallAddOutputs(destination) ==
    /\ call' = Call("add_outputs", destination, <<>>, 0)
    /\ ret' = Outcome(AddOutputs(configuration, destination), <<>>, <<>>, <<>>)
    /\ UNCHANGED configuration
    /\ ScanUnchanged

\* set_configuration_by_keys on a copy of the held configuration
CallSetConfigurationByKeys ==
    /\ call' = Call("set_configuration_by_keys", NoneV, configuration, 0)
    /\ ret' = Outcome(Return(StrV(SetConfigurationByKeys(configuration))),
                      <<>>, <<>>, configuration)
    /\ UNCHANGED configuration
    /\ ScanUnchanged

\* generate_command on a copy of the held configuration
CallGenerateCommand(destination) ==
    LET g == GenerateCommand(destination, configuration)
    IN  /\ call' = Call("generate_command", destination, configuration, 0)
        /\ ret' = Outcome(g.out, <<>>, <<>>, g.config)
        /\ UNCHANGED configuration
        /\ ScanUnchanged

CallGenerateOutputDict(destination) ==
    /\ call' = Call("generate_output_dict", destination, <<>>, 0)
    /\ ret' = Outcome(GenerateOutputDict(destination), <<>>, <<>>, <<>>)
    /\ UNCHANGED configuration
    /\ ScanUnchanged

CallRun(destination, status) ==
    LET r == Run(configuration, destination, status)
    IN  /\ call' = Call("run", destination, <<>>, status)
        /\ ret' = Outcome(r.out, r.phases, r.executed, <<>>)
        /\ configuration' = r.held
        /\ ScanUnchanged

\* Tensor2metric(**kwargs)
Init ==
    /\ configuration \in Configs
    /\ call = [op |-> "__init__", destination |-> NoneV, config |-> <<>>,
               status |-> 0, held |-> configuration]
    /\ ret = Outcome(Return(NoneV), <<>>, <<>>, <<>>)
    /\ catalog = {}
    /\ dicom = NoSeries
    /\ inferred = NotInferred
    /\ scan = CreatedScan(NoneV, NoSeries).scan
    /\ db = CreatedScan(NoneV, NoSeries).db
    /\ niftis = {}
    /\ access = NotAccessed
    /\ suggested = NotSuggested

Next ==
    \/ \E d \in PathDestinations : CallAddOutputs(d)
    \/ CallSetConfigurationByKeys
    \/ \E d \in PathDestinations : CallGenerateCommand(d)
    \/ \E d \in PathDestinations : CallGenerateOutputDict(d)
    \/ \E d \in RunDestinations, s \in ExitStatuses : CallRun(d, s)

Spec == Init /\ [][Next]_vars

----------------------------------------------------------------------------
(* The scan's calls.                                                       *)

WrapperUnchanged == UNCHANGED <<configuration, call, ret>>

CreateSequenceType(row) ==
    /\ Cardinality(catalog) < MaxCatalog
    /\ UniqueTogether(catalog, row)
    /\ catalog' = catalog \cup {row}
    /\ UNCHANGED <<dicom, inferred>>
    /\ RecordUnchanged
    /\ WrapperUnchanged

DeleteSequenceType(row) ==
    /\ row \in catalog
    /\ catalog' = catalog \ {row}
    /\ UNCHANGED <<dicom, inferred>>
    /\ RecordUnchanged
    /\ WrapperUnchanged

SetDicom(series) ==
    /\ access.pc = "idle"
    /\ dicom' = series
    /\ UNCHANGED <<catalog, inferred>>
    /\ RecordUnchanged
    /\ WrapperUnchanged

CallInferSequenceType ==
    /\ inferred' = [called |-> TRUE, rows |-> catalog, series |-> dicom,
                     out |-> InferSequenceType(catalog, dicom)]
    /\ UNCHANGED <<catalog, dicom>>
    /\ RecordUnchanged
    /\ WrapperUnchanged

InitScan ==
    /\ configuration = <<>>
    /\ call = [op |-> "__init__", destination |-> NoneV, config |-> <<>>,
               status |-> 0, held |-> <<>>]
    /\ ret = Outcome(Return(NoneV), <<>>, <<>>, <<>>)
    /\ catalog = {}
    /\ dicom \in SeriesPool \cup {NoSeries}
    /\ inferred = NotInferred
    /\ scan = CreatedScan(NoneV, NoSeries).scan
    /\ db = CreatedScan(NoneV, NoSeries).db
    /\ niftis = {}
    /\ access = NotAccessed
    /\ suggested = NotSuggested

NextScan ==
    \/ \E row \in Rows : CreateSequenceType(row)
    \/ \E row \in Rows : DeleteSequenceType(row)
    \/ \E series \in SeriesPool \cup {NoSeries} : SetDicom(series)
    \/ CallInferSequenceType

SpecScan == InitScan /\ [][NextScan]_vars

----------------------------------------------------------------------------
(* Scan.save and Scan.update_fields_from_dicom, called on their own.       *)

CallSave ==
    /\ access.pc = "idle"
    /\ scan' = Save(scan, dicom).scan
    /\ db' = Save(scan, dicom).db
    /\ UNCHANGED <<catalog, dicom, inferred, niftis, access, suggested>>
    /\ WrapperUnchanged

CallUpdateFieldsFromDicom ==
    /\ access.pc = "idle"
    /\ scan' = UpdateFieldsFromDicom(scan, dicom).scan
    /\ UNCHANGED <<catalog, dicom, inferred, db, niftis, access, suggested>>
    /\ WrapperUnchanged

----------------------------------------------------------------------------
(* Reading Scan.nifti, and calling Scan.dicom_to_nifti. The SequenceType   *)
(* table is shared with other connections, so each query of it is a step   *)
(* of its own; the scan instance belongs to one thread, so its other       *)
(* methods start only when no call is running.                             *)

\* the first evaluation of self.sequence_type at the head of dicom_to_nifti
Started(via) ==
    LET first == InferSequenceType(catalog, dicom)
    IN  [called |-> TRUE,
         pc |-> IF first.kind = "return" /\ ModelTruthy(first.value)
                THEN "second" ELSE "body",
         via |-> via, before |-> scan.nifti, first |-> first,
         second |-> Return(NoneV), destination |-> NoneV,
         out |-> Return(NoneV), converted |-> FALSE, warned |-> FALSE,
         saved |-> FALSE]

\* the nifti property up to the first query, or to its return when a record
\* is held
ReadNifti ==
    /\ access.pc = "idle"
    /\ IF NeedsConversion(scan.nifti)
       THEN /\ Cardinality(niftis) < MaxNiftis
            /\ access' = Started("nifti")
       ELSE access' = [NotAccessed EXCEPT !.called = TRUE,
                                          !.before = scan.nifti,
                                          !.out = Return(scan.nifti)]
    /\ UNCHANGED <<catalog, dicom, inferred, scan, db, niftis, suggested>>
    /\ WrapperUnchanged

\* dicom_to_nifti() called on its own, up to the first query
CallDicomToNifti ==
    /\ access.pc = "idle"
    /\ Cardinality(niftis) < MaxNiftis
    /\ access' = Started("dicom_to_nifti")
    /\ UNCHANGED <<catalog, dicom, inferred, scan, db, niftis, suggested>>
    /\ WrapperUnchanged

\* the second evaluation of self.sequence_type
SecondQuery ==
    /\ access.pc = "second"
    /\ access' = [access EXCEPT !.pc = "body",
                                !.second = InferSequenceType(catalog, dicom)]
    /\ UNCHANGED <<catalog, dicom, inferred, scan, db, niftis, suggested>>
    /\ WrapperUnchanged

\* dicom_to_nifti after the queries, up to the start of dcm2niix
ConvertDicom(bids) ==
    LET r == DicomToNiftiDestination(access.first, access.second, dicom,
                                     bids)
    IN  /\ access.pc = "body"
        /\ access' = [access EXCEPT
                          !.pc = IF r.go THEN "convert"
                                 ELSE IF /\ access.via = "nifti"
                                         /\ r.out.kind = "return"
                                 THEN "save" ELSE "idle",
                          !.first = Return(NoneV),
                          !.second = Return(NoneV),
                          !.destination = IF r.go THEN r.out.value ELSE NoneV,
                          !.out = IF r.go THEN Return(NoneV) ELSE r.out,
                          !.warned = r.warned]
        /\ UNCHANGED <<catalog, dicom, inferred, scan, db, niftis,
                       suggested>>
        /\ WrapperUnchanged

\* dcm2niix has ended: the new NIfTI row, and the return of dicom_to_nifti
CreateNifti(tool) ==
    LET r == DicomToNiftiCreate(access.destination, niftis, tool)
    IN  /\ access.pc = "convert"
        /\ niftis' = r.table
        /\ access' = [access EXCEPT
                          !.pc = IF /\ access.via = "nifti"
                                    /\ r.out.kind = "return"
                                 THEN "save" ELSE "idle",
                          !.destination = NoneV,
                          !.out = r.out,
                          !.converted = r.converted]
        /\ UNCHANGED <<catalog, dicom, inferred, scan, db, suggested>>
        /\ WrapperUnchanged

\* self._nifti = <what dicom_to_nifti returned>; self.save(); return
SaveNifti ==
    LET w == Save([scan EXCEPT !.nifti = access.out.value], dicom)
    IN  /\ access.pc = "save"
        /\ scan' = w.scan
        /\ db' = w.db
        /\ access' = [access EXCEPT !.pc = "idle", !.saved = TRUE,
                                    !.out = Return(w.scan.nifti)]
        /\ UNCHANGED <<catalog, dicom, inferred, niftis, suggested>>
        /\ WrapperUnchanged

InitNifti ==
    /\ configuration = <<>>
    /\ call = [op |-> "__init__", destination |-> NoneV, config |-> <<>>,
               status |-> 0, held |-> <<>>]
    /\ ret = Outcome(Return(NoneV), <<>>, <<>>, <<>>)
    /\ catalog = {}
    /\ dicom \in ConvertedSeries \cup {NoSeries}
    /\ inferred = NotInferred
    /\ scan = CreatedScan(NoneV, dicom).scan
    /\ db = CreatedScan(NoneV, dicom).db
    /\ niftis = {}
    /\ access = NotAccessed
    /\ suggested = NotSuggested

NextNifti ==
    \/ \E row \in ConvertedRows : CreateSequenceType(row)
    \/ \E row \in ConvertedRows : DeleteSequenceType(row)
    \/ \E series \in ConvertedSeries \cup {NoSeries} : SetDicom(series)
    \/ CallSave
    \/ CallUpdateFieldsFromDicom
    \/ ReadNifti
    \/ CallDicomToNifti
    \/ SecondQuery
    \/ \E bids \in BidsOutcomes : ConvertDicom(bids)
    \/ \E tool \in ToolOutcomes : CreateNifti(tool)
    \/ SaveNifti

SpecNifti == InitNifti /\ [][NextNifti]_vars

----------------------------------------------------------------------------
(* Suggesting a subject.                                                   *)

CallSuggestSubject(subject) ==
    LET r == SuggestSubject(scan, db, dicom, subject)
    IN  /\ suggested' = [called |-> TRUE, subject |-> subject,
                         before |-> scan, row |-> db, after |-> r.scan,
                         saved_row |-> r.db, warned |-> r.warned,
                         saved |-> r.saved]
        /\ scan' = r.scan
        /\ db' = r.db
        /\ UNCHANGED <<catalog, dicom, inferred, niftis, access>>
        /\ WrapperUnchanged

InitSubject ==
    /\ configuration = <<>>
    /\ call = [op |-> "__init__", destination |-> NoneV, config |-> <<>>,
               status |-> 0, held |-> <<>>]
    /\ ret = Outcome(Return(NoneV), <<>>, <<>>, <<>>)
    /\ catalog = {}
    /\ dicom \in SuggestedSeries \cup {NoSeries}
    /\ inferred = NotInferred
    /\ \E subject \in SubjectPool \cup {NoneV} :
           /\ scan = CreatedScan(subject, dicom).scan
           /\ db = CreatedScan(subject, dicom).db
    /\ niftis = {}
    /\ access = NotAccessed
    /\ suggested = NotSuggested

NextSubject ==
    \/ \E series \in SuggestedSeries \cup {NoSeries} : SetDicom(series)
    \/ CallSave
    \/ CallUpdateFieldsFromDicom
    \/ \E subject \in SubjectPool \cup {NoneV} : CallSuggestSubject(subject)

SpecSubject == InitSubject /\ [][NextSubject]_vars

----------------------------------------------------------------------------
(* Properties.                                                             *)

\* t occurs in s
Contains(s, t) ==
    \E i \in 1..(Len(s) - Len(t) + 1) : SubSeq(s, i, i + Len(t) - 1) = t

BuildsCommand == call.op \in {"set_configuration_by_keys", "generate_command"}

\* the items of the argument that set_configuration_by_keys walks
OptionItems ==
    {i \in 1..Len(call.config) :
        call.op = "generate_command" => call.config[i].k # "in_file"}

\* C1: a registered flag whose value is False does not appear in the command
\* built from the configuration, neither as "-<name>" nor as "-<name> False".
C1_FalseFlagOmitted ==
    (BuildsCommand /\ ret.kind = "return") =>
        \A i \in OptionItems :
            (IsFlag(call.config[i].k) /\ call.config[i].v = BoolV(FALSE)) =>
                ~Contains(ret.value.s, "-" \o call.config[i].k)

\* C2: add_outputs(D) on a configuration without "tensor_file" returns a
\* configuration whose "tensor_file" is D joined with "tensor.mif".
C2_DefaultOutputResolved ==
    (call.op = "add_outputs" /\ ~HasKey(call.held, "tensor_file")) =>
        /\ ret.kind = "return"
        /\ DictGet(ret.value.d, "tensor_file")
               = Return(PathV(call.destination.p \o "/tensor.mif"))

\* C3: with exit status 0, run on a configuration that names its input returns
\* a mapping whose keys are exactly those of DEFAULT_OUTPUTS, each the
\* destination joined with the default filename; generate_output_dict(D)
\* returns that mapping.
C3_SuccessYieldsOutputs ==
    /\ (call.op = "run" /\ call.status = 0 /\ HasKey(call.held, "in_file")
            /\ call.destination = StrV("/out/")) =>
           /\ ret.kind = "return"
           /\ ret.value = DictV(<<[k |-> "tensor_file",
                                   v |-> PathV("/out/tensor.mif")]>>)
    /\ call.op = "generate_output_dict" =>
           /\ ret.kind = "return"
           /\ ret.value = DictV(<<[k |-> "tensor_file",
                   v |-> PathV(call.destination.p \o "/tensor.mif")]>>)

\* C4: with a nonzero exit status, run on a configuration that names its input
\* raises RuntimeError, whose message holds the command given to the process.
C4_FailureRaisesWithCommand ==
    (call.op = "run" /\ call.status # 0 /\ HasKey(call.held, "in_file")) =>
        /\ ret.kind = "raise"
        /\ ret.exc = "RuntimeError"
        /\ Len(ret.executed) = 1
        /\ Contains(ret.arg, ret.executed[1])

EndToEndConfiguration ==
    <<[k |-> "in_file", v |-> StrV("/data/dwi.mif")],
      [k |-> "ols", v |-> BoolV(TRUE)]>>

\* C5: run("/out/") on {in_file: "/data/dwi.mif", ols: True} with exit status 0
\* executes "dwi2tensor /data/dwi.mif -ols -tensor_file /out/tensor.mif" and
\* returns {"tensor_file": "/out/tensor.mif"}.
C5_EndToEnd ==
    (call.op = "run" /\ call.held = EndToEndConfiguration
         /\ call.destination = StrV("/out/") /\ call.status = 0) =>
        /\ ret.executed
               = <<"dwi2tensor /data/dwi.mif -ols -tensor_file /out/tensor.mif">>
        /\ ret.kind = "return"
        /\ ret.value = DictV(<<[k |-> "tensor_file",
                                v |-> PathV("/out/tensor.mif")]>>)

\* C6: add_outputs on a configuration that has "tensor_file" returns a
\* configuration with the caller's value under "tensor_file", and leaves the
\* held configuration as it was.
C6_ExplicitOutputKept ==
    (call.op = "add_outputs" /\ HasKey(call.held, "tensor_file")) =>
        /\ ret.kind = "return"
        /\ DictGet(ret.value.d, "tensor_file")
               = DictGet(call.held, "tensor_file")
        /\ configuration = call.held

C6_Witness ==
    /\ call.op = "add_outputs"
    /\ DictGet(call.held, "tensor_file") = Return(StrV("t.mif"))
    /\ ret.kind = "return"
    /\ DictGet(ret.value.d, "tensor_file") = Return(StrV("t.mif"))

\* C7: without "in_file", run and generate_command raise KeyError("in_file"):
\* no command is built and nothing is handed to os.system.
C7_MissingInputFails ==
    /\ (call.op = "run" /\ ~HasKey(call.held, "in_file")) =>
           /\ ret.kind = "raise"
           /\ ret.exc = "KeyError"
           /\ ret.arg = "in_file"
           /\ ret.phases = <<"Configured", "Failed">>
           /\ ret.executed = <<>>
    /\ (call.op = "generate_command" /\ ~HasKey(call.config, "in_file")) =>
           /\ ret.kind = "raise"
           /\ ret.exc = "KeyError"
           /\ ret.arg = "in_file"

C7_Witness ==
    /\ call.op = "run"
    /\ ~HasKey(call.held, "in_file")
    /\ HasKey(call.held, "tensor_file")
    /\ ret.kind = "raise"
    /\ ret.executed = <<>>

\* C8: an invocation of run on a configuration that names its input goes
\* through Configured, CommandBuilt, Running and then Succeeded or Failed, and
\* hands exactly one command to the process.
C8_RunPhases ==
    (call.op = "run" /\ HasKey(call.held, "in_file")) =>
        /\ ret.phases \in
               {<<"Configured", "CommandBuilt", "Running", "Succeeded">>,
                <<"Configured", "CommandBuilt", "Running", "Failed">>}
        /\ Len(ret.executed) = 1

\* the elements of a list, each after one space
RECURSIVE SpaceSeparated(_)
SpaceSeparated(q) ==
    IF Len(q) = 0 THEN "" ELSE " " \o PyStr(q[1]) \o SpaceSeparated(Tail(q))

\* C9: for an option whose value is a list, the command holds "-<name>"
\* directly followed by the elements in list order, one space before each.
C9_ListOptionVerbatim ==
    (BuildsCommand /\ ret.kind = "return") =>
        \A i \in OptionItems :
            call.config[i].v.t = "list" =>
                Contains(ret.value.s,
                         "-" \o call.config[i].k
                             \o SpaceSeparated(call.config[i].v.items))

C9_Witness ==
    /\ call.op = "set_configuration_by_keys"
    /\ \E i \in 1..Len(call.config) :
           call.config[i] = [k |-> "mask",
                             v |-> ListV(<<StrV("a"), StrV("b"), StrV("c")>>)]
    /\ ret.kind = "return"
    /\ Contains(ret.value.s, "-mask a b c")

\* C10: infer_sequence_type returns the one row of the table that has the
\* series' (scanning_sequence, sequence_variant) when there is one, None when
\* there is none or the scan has no series, and never raises.
C10_ClassificationTotal ==
    inferred.called =>
        /\ inferred.out.kind = "return"
        /\ IF inferred.series = NoSeries THEN inferred.out.value = NoneV
           ELSE LET found ==
                        {r \in inferred.rows :
                            /\ r.scanning_sequence
                                   = inferred.series.scanning_sequence
                            /\ r.sequence_variant
                                   = inferred.series.sequence_variant}
                IN  IF found = {} THEN inferred.out.value = NoneV
                    ELSE /\ Cardinality(found) = 1
                         /\ inferred.out.value.t = "SequenceType"
                         /\ inferred.out.value.row \in found

C10_Witness ==
    /\ inferred.called
    /\ Cardinality(inferred.rows) = 2
    /\ inferred.series = SeriesV(<<"EP">>, <<"NONE">>)
    /\ inferred.out.kind = "return"
    /\ inferred.out.value.t = "SequenceType"
    /\ inferred.out.value.row.scanning_sequence = <<"EP">>
    /\ inferred.out.value.row.sequence_variant = <<"NONE">>

\* the items whose option is no registered flag and whose value is False or 0
FalsyOptionItems ==
    {i \in OptionItems :
        /\ ~IsFlag(call.config[i].k)
        /\ call.config[i].v \in {BoolV(FALSE), IntV(0)}}

\* C12 as stated: the value of a non-flag option that is False or 0 is left
\* out of the command.
C12_FalsyValueDropped ==
    (BuildsCommand /\ ret.kind = "return") =>
        \A i \in FalsyOptionItems :
            ~Contains(ret.value.s,
                      "-" \o call.config[i].k \o " " \o PyStr(call.config[i].v))

\* C12: the value of a non-flag option that is False or 0 is emitted like any
\* other value: the command holds "-<name> False" or "-<name> 0".
C12_FalsyValueEmitted ==
    (BuildsCommand /\ ret.kind = "return") =>
        \A i \in FalsyOptionItems :
            Contains(ret.value.s,
                     " -" \o call.config[i].k \o " "
                         \o (IF call.config[i].v.t = "bool" THEN "False"
                             ELSE "0"))

C12_Witness ==
    /\ call.op = "set_configuration_by_keys"
    /\ call.config = <<[k |-> "mask", v |-> IntV(0)],
                       [k |-> "tensor_file", v |-> BoolV(FALSE)]>>
    /\ ret.kind = "return"
    /\ ret.value.s = " -mask 0 -tensor_file False"

\* a step that is a read of Scan.nifti finding a record
ReadFindsRecord ==
    /\ access' # access
    /\ access.pc = "idle"
    /\ access'.via = "nifti"
    /\ scan.nifti.t = "NIfTI"

\* C11: Scan.nifti converts lazily and at most once. A read starts
\* dicom_to_nifti only when _nifti holds no NIfTI record, so a conversion made
\* for a read began without one; a read that finds a record returns that very
\* record at once and leaves the NIfTI table, the instance and the saved row
\* alone; the record a read produced is the one the read assigns, saves and
\* returns; and a record once held is never replaced, in the instance or in
\* the saved row, by any later step.
C11_ConvertsAtMostOnce ==
    [][/\ ReadFindsRecord =>
              /\ access'.pc = "idle"
              /\ access'.out = Return(scan.nifti)
              /\ ~access'.converted
              /\ niftis' = niftis /\ scan' = scan /\ db' = db
       /\ (access'.via = "nifti" /\ access'.pc # "idle") =>
              access'.before.t # "NIfTI"
       /\ (access'.via = "nifti" /\ access'.converted) =>
              access'.before.t # "NIfTI"
       /\ (access'.via = "nifti" /\ niftis' # niftis) =>
              /\ scan.nifti.t # "NIfTI"
              /\ access'.pc = "save"
              /\ niftis' = niftis \cup {access'.out.value}
       /\ (access.pc = "save" /\ access'.pc = "idle") =>
              /\ scan'.nifti = access.out.value
              /\ db'.nifti = access.out.value
              /\ access'.out = Return(access.out.value)
       /\ scan.nifti.t = "NIfTI" =>
              /\ scan'.nifti = scan.nifti
              /\ db.nifti = scan.nifti
              /\ db'.nifti = scan.nifti
              /\ scan.nifti \in niftis']_vars

C11_Witness ==
    /\ access.called
    /\ access.via = "nifti"
    /\ access.pc = "idle"
    /\ access.before.t = "NIfTI"
    /\ access.out = Return(access.before)
    /\ ~access.converted
    /\ scan.nifti = access.before
    /\ db.nifti = access.before
    /\ access.before \in niftis

\* C13: suggest_subject never replaces an assigned subject with a different
\* one. suggest_subject(None) changes and saves nothing; a subject that
\* differs from the assigned one only raises the warning, the instance and
\* the saved row staying as they were; with no subject assigned, or with the
\* same subject, the subject is assigned and the scan saved.
C13_SubjectNeverReplaced ==
    suggested.called =>
        /\ ModelTruthy(suggested.before.subject) =>
                suggested.after.subject = suggested.before.subject
        /\ suggested.subject = NoneV =>
                /\ suggested.after = suggested.before
                /\ suggested.saved_row = suggested.row
                /\ ~suggested.saved
                /\ ~suggested.warned
        /\ (/\ suggested.subject # NoneV
            /\ ModelTruthy(suggested.before.subject)
            /\ suggested.before.subject # suggested.subject) =>
                /\ suggested.after = suggested.before
                /\ suggested.saved_row = suggested.row
                /\ suggested.warned
                /\ ~suggested.saved
        /\ (/\ suggested.subject # NoneV
            /\ \/ suggested.before.subject = NoneV
               \/ suggested.before.subject = suggested.subject) =>
                /\ suggested.after.subject = suggested.subject
                /\ suggested.saved_row.subject = suggested.subject
                /\ suggested.saved
                /\ ~suggested.warned

C13_Witness ==
    /\ suggested.called
    /\ suggested.before.subject = SubjectV("s1")
    /\ suggested.subject = SubjectV("s2")
    /\ suggested.warned
    /\ suggested.after.subject = SubjectV("s1")
    /\ suggested.saved_row = suggested.row
    /\ scan.subject = SubjectV("s1")

============================================================================
